---- MODULE Spec2Model ----
(***************************************************************************)
(* A model of supper's rename pipeline: the renamer wrapper and its four   *)
(* link strategies acting on a small filesystem, the scraper aggregator,   *)
(* the batch loop of Application.RenameMedia, the construction of a local  *)
(* subtitle from a file name, the library scan of Application.FindMedia    *)
(* and truncateSpaces.                                                     *)
(***************************************************************************)
EXTENDS Integers, Sequences, FiniteSets, TLC

VARIABLES
    fs,       \* path -> directory entry (none, regular file, symbolic link)
    dirs,     \* directory -> absent, or the permission bits it has
    last,     \* the Rename call that has just returned, if any (SpecRename)
    list,     \* the media list handed to RenameMedia
    cfg,      \* the configuration read through viper / a.Config()
    idx,      \* number of list items the loop of RenameMedia has entered
    pc,       \* where RenameMedia is: start, next (loop head), scrape, merge,
              \* rename, done (returned)
    ret,      \* the error RenameMedia returned ("nil" for none)
    cur,      \* the loop's work on the item it is at: scraped, merged, renamed
    sub,      \* record of the most recent NewLocalSubtitle call (SpecSubtitle)
    scan,     \* the library FindMedia walks and what it returned (SpecScan)
    txt       \* a string and truncateSpaces of it (SpecTruncate)

vars == <<fs, dirs, last, list, cfg, idx, pc, ret, cur, sub, scan, txt>>

---------------------------------------------------------------------------
(* Bounds *)

MaxItems == 2      \* length of the media list of a batch
NumScrapers == 3   \* scrapers configured in the application
MaxNameLen == 4    \* tokens in a file name given to NewLocalSubtitle

---------------------------------------------------------------------------
(* The filesystem the os package acts on *)

Paths == {"lib/a", "out/x", "out/y"}

Dir(p) == IF p = "lib/a" THEN "lib" ELSE "out"

DirNames == {Dir(p) : p \in Paths}

\* The directories of a filesystem nobody has run the program on: one that
\* holds a file exists with ordinary permissions, and so does the library's.
DirsOf(f) ==
    [n \in DirNames |->
        IF n = "lib" \/ \E p \in Paths : Dir(p) = n /\ f[p].kind # "none"
        THEN "rwx" ELSE "absent"]

\* File contents: 0 is the empty (just created or truncated) file.
Contents == {1, 2}

NoFile == [kind |-> "none"]

File(c) == [kind |-> "file", data |-> c]

Symlink(t) == [kind |-> "symlink", target |-> t]

\* The entry itself is there (lstat succeeds).
LExists(f, p) == f[p].kind # "none"

\* Follow symbolic links from p; "ELOOP" when more links than paths are met.
RECURSIVE Resolve(_, _, _)
Resolve(f, p, fuel) ==
    IF f[p].kind # "symlink" THEN p
    ELSE IF fuel = 0 THEN "ELOOP"
    ELSE Resolve(f, f[p].target, fuel - 1)

Follow(f, p) == Resolve(f, p, Cardinality(Paths))

\* os.Stat(p) returns a nil error: stat follows symbolic links.
StatOK(f, p) ==
    LET q == Follow(f, p) IN q # "ELOOP" /\ f[q].kind = "file"

\* The bytes a read of p yields; -1 when p cannot be opened.
ReadFile(f, p) ==
    IF StatOK(f, p) THEN f[Follow(f, p)].data ELSE -1

\* os.Remove(p) unlinks the entry itself, never what a link points to.
Remove(f, p) == [f EXCEPT ![p] = NoFile]

\* os.MkdirAll(filepath.Dir(dest), os.ModeDir): an existing directory is
\* left as it is; a missing one is made with the permission bits of
\* os.ModeDir, which has none.
MkdirAll(d, dest) ==
    IF d[Dir(dest)] = "absent" THEN [d EXCEPT ![Dir(dest)] = "---"] ELSE d

\* EACCES: a process the permission bits apply to (fault "perm": it does not
\* run as root) makes an entry in a directory that grants nothing.
Denied(d, p, fault) == fault = "perm" /\ d[Dir(p)] = "---"

\* Such a process cannot have put an entry into a directory without
\* permission bits.
NothingBehindMode0(f, d) ==
    \A p \in Paths : LExists(f, p) => d[Dir(p)] # "---"

---------------------------------------------------------------------------
(* types.Local: Open() reads the media's file; Path() only for a Pather *)

Locals == [file : Paths, pather : BOOLEAN]

\* Failures of the operating system the code cannot rule out, one per call of
\* Rename at most; "perm" is no failure from outside but the process not
\* running as root.
Faults == {"none", "remove", "mkdir", "open", "create", "copy", "link", "perm"}

Strategies == {"copy", "move", "symlink", "hardlink"}

Outcome(e, f, d, t) == [err |-> e, fs |-> f, dirs |-> d, trace |-> t]

---------------------------------------------------------------------------
(* The four link strategies.  Each returns the error, the filesystem it    *)
(* leaves and the trace of the os calls it made, in order.                 *)

\* copy that closes its handles by hand on the way to a successful return
\* only: an early return leaves them open.
copyRenamerLeaks(local, dest, fault, f, d) ==
    IF fault = "mkdir" THEN Outcome("MkdirFailed", f, d, <<"mkdir">>)
    ELSE LET d1 == MkdirAll(d, dest) IN
    IF fault = "open" \/ ~StatOK(f, local.file)
    THEN Outcome("OpenFailed", f, d1, <<"mkdir", "open">>)
    ELSE LET q == Follow(f, dest) IN
    IF \/ fault = "create"
       \/ q = "ELOOP"
       \/ d1[Dir(q)] = "absent"
       \/ Denied(d1, q, fault)
    THEN Outcome("CreateFailed", f, d1,
                 <<"mkdir", "open", "acquire:src", "create">>)
    ELSE LET data == IF Follow(f, local.file) = q THEN 0
                     ELSE ReadFile(f, local.file)
             f1 == [f EXCEPT ![q] = File(0)] IN
    IF fault = "copy"
    THEN Outcome("CopyFailed", f1, d1,
                 <<"mkdir", "open", "acquire:src", "create", "acquire:dst",
                   "copy">>)
    ELSE Outcome("nil", [f EXCEPT ![q] = File(data)], d1,
                 <<"mkdir", "open", "acquire:src", "create", "acquire:dst",
                   "copy", "close:dst", "close:src">>)

copyRenamer(local, dest, fault, f, d) ==
    IF fault = "mkdir" THEN Outcome("MkdirFailed", f, d, <<"mkdir">>)
    ELSE LET d1 == MkdirAll(d, dest) IN
    IF fault = "open" \/ ~StatOK(f, local.file)
    THEN Outcome("OpenFailed", f, d1, <<"mkdir", "open">>)
    ELSE LET q == Follow(f, dest) IN
    IF \/ fault = "create"
       \/ q = "ELOOP"
       \/ d1[Dir(q)] = "absent"
       \/ Denied(d1, q, fault)
    THEN Outcome("CreateFailed", f, d1,
                 <<"mkdir", "open", "acquire:src", "create", "close:src">>)
    ELSE LET data == IF Follow(f, local.file) = q THEN 0
                     ELSE ReadFile(f, local.file)
             f1 == [f EXCEPT ![q] = File(0)] IN
    IF fault = "copy"
    THEN Outcome("CopyFailed", f1, d1,
                 <<"mkdir", "open", "acquire:src", "create", "acquire:dst",
                   "copy", "close:dst", "close:src">>)
    ELSE Outcome("nil", [f EXCEPT ![q] = File(data)], d1,
                 <<"mkdir", "open", "acquire:src", "create", "acquire:dst",
                   "copy", "close:dst", "close:src">>)

moveRenamer(local, dest, fault, f, d) ==
    IF fault = "mkdir" THEN Outcome("MkdirFailed", f, d, <<"mkdir">>)
    ELSE LET d1 == MkdirAll(d, dest) IN
    IF ~local.pather THEN Outcome("NoPath", f, d1, <<"mkdir">>)
    ELSE IF fault = "link" \/ ~LExists(f, local.file) \/ Denied(d1, dest, fault)
    THEN Outcome("LinkFailed", f, d1, <<"mkdir", "rename">>)
    ELSE IF local.file = dest
    THEN Outcome("nil", f, d1, <<"mkdir", "rename">>)
    ELSE Outcome("nil", [f EXCEPT ![dest] = f[local.file], ![local.file] = NoFile],
                 d1, <<"mkdir", "rename">>)

symlinkRenamer(local, dest, fault, f, d) ==
    IF fault = "mkdir" THEN Outcome("MkdirFailed", f, d, <<"mkdir">>)
    ELSE LET d1 == MkdirAll(d, dest) IN
    IF ~local.pather THEN Outcome("NoPath", f, d1, <<"mkdir">>)
    ELSE IF fault = "link" \/ LExists(f, dest) \/ Denied(d1, dest, fault)
    THEN Outcome("LinkFailed", f, d1, <<"mkdir", "symlink">>)
    ELSE Outcome("nil", [f EXCEPT ![dest] = Symlink(local.file)], d1,
                 <<"mkdir", "symlink">>)

hardlinkRenamer(local, dest, fault, f, d) ==
    IF fault = "mkdir" THEN Outcome("MkdirFailed", f, d, <<"mkdir">>)
    ELSE LET d1 == MkdirAll(d, dest) IN
    IF ~local.pather THEN Outcome("NoPath", f, d1, <<"mkdir">>)
    ELSE IF \/ fault = "link"
            \/ ~LExists(f, local.file)
            \/ LExists(f, dest)
            \/ Denied(d1, dest, fault)
    THEN Outcome("LinkFailed", f, d1, <<"mkdir", "link">>)
    ELSE Outcome("nil", [f EXCEPT ![dest] = f[local.file]], d1,
                 <<"mkdir", "link">>)

\* Renamers[action](local, dest)
Renamers(action, local, dest, fault, f, d) ==
    CASE action = "copy"     -> copyRenamer(local, dest, fault, f, d)
      [] action = "move"     -> moveRenamer(local, dest, fault, f, d)
      [] action = "symlink"  -> symlinkRenamer(local, dest, fault, f, d)
      [] action = "hardlink" -> hardlinkRenamer(local, dest, fault, f, d)

\* The wrapper proceeds although the destination exists and force is off.
RenameNoExistsCheck(action, local, dest, force, fault, f, d) ==
    LET r == Renamers(action, local, dest, fault, f, d) IN
    Outcome(r.err, r.fs, r.dirs, <<"stat", "call">> \o r.trace)

\* renamer.Rename: the sanity checks around a strategy.
Rename(action, local, dest, force, fault, f, d) ==
    LET exists == StatOK(f, dest) IN
    IF ~force /\ exists THEN Outcome("MediaExists", f, d, <<"stat">>)
    ELSE IF exists /\ fault = "remove"
    THEN Outcome("RemoveFailed", f, d, <<"stat", "remove">>)
    ELSE LET f1 == IF exists THEN Remove(f, dest) ELSE f
             pre == IF exists THEN <<"stat", "remove", "call">>
                    ELSE <<"stat", "call">>
             r == Renamers(action, local, dest, fault, f1, d) IN
         Outcome(r.err, r.fs, r.dirs, pre \o r.trace)

---------------------------------------------------------------------------
(* Media, scrapers and the merge *)

\* A local media item as the library scan hands it over: its variant, the
\* identity (title, year, season, episode) and release metadata parsed from
\* the file name, and the file it stands for.
Kinds == {"movie", "episode", "subtitle", "other"}

Items == [kind : Kinds, id : {1}, meta : {1}, file : Paths]

\* What a scraper hands back: a variant and the canonical identity; scraped
\* media carries no release metadata (0).
Remotes == [kind : {"movie", "episode", "other"}, id : {1, 2}, meta : {0}]

NoMedia == [kind |-> "none", id |-> 0, meta |-> 0]

\* One scraper's answer to Scrape(m).
Responses == {[err |-> "NotSupported", media |-> NoMedia],
              [err |-> "ScrapeFailed", media |-> NoMedia]}
                \cup {[err |-> "nil", media |-> r] : r \in Remotes}

\* The fused value of a merge: identity from the remote, release metadata
\* from the local.
Fuse(m, other) == [m EXCEPT !.id = other.id]

\* m.Merge(other) for a movie, an episode or another mergeable media.
\* The call returns an error only, so the fused value either replaces the
\* receiver's fields (inPlace) or is a fresh value the call site never sees.
MergeMedia(m, other, inPlace) ==
    IF m.kind # other.kind
    THEN [err |-> "TypeMismatch", m |-> m, fused |-> NoMedia]
    ELSE [err |-> "nil",
          m |-> IF inPlace THEN Fuse(m, other) ELSE m,
          fused |-> Fuse(m, other)]

\* A subtitle's Merge takes the other media and reports no error.
SubtitleMergeAccepts(m, other) ==
    [err |-> "nil", m |-> m, fused |-> other]

\* LocalSubtitle.Merge
SubtitleMerge(m, other) ==
    [err |-> "MergeUnsupported", m |-> m, fused |-> NoMedia]

Merge(m, other, inPlace) ==
    IF m.kind = "subtitle" THEN SubtitleMerge(m, other)
    ELSE MergeMedia(m, other, inPlace)

\* m.TypeMovie() and m.TypeEpisode(): the second result
TypeMovie(m) == m.kind = "movie"

TypeEpisode(m) == m.kind = "episode"

---------------------------------------------------------------------------
(* Rendering and the batch loop of Application.RenameMedia *)

\* Where the movie template, the movies directory and the file's extension
\* place a movie, and likewise for an episode: one name per identity.
MovieDest(m) == IF m.id = 1 THEN "out/x" ELSE "out/y"

EpisodeDest(m) == IF m.id = 1 THEN "out/y" ELSE "out/x"

BatchFaults == Faults \cup {"render"}

NoRename(e, f, d) ==
    [err |-> e, fs |-> f, dirs |-> d, trace |-> <<>>, dest |-> "none"]

WithDest(r, dest) ==
    [err |-> r.err, fs |-> r.fs, dirs |-> r.dirs, trace |-> r.trace,
     dest |-> dest]

LocalOf(m, c) == [file |-> m.file, pather |-> c.pather]

\* Application.renameMovie
renameMovie(m, c, fault, f, d) ==
    IF "movies" \notin c.templates THEN NoRename("TemplateMissing", f, d)
    ELSE IF fault = "render" THEN NoRename("RenderFailed", f, d)
    ELSE WithDest(Rename(c.action, LocalOf(m, c), MovieDest(m), c.force,
                         fault, f, d), MovieDest(m))

\* renameEpisode looks for the movie template instead of its own.
renameEpisodeMovieTemplate(m, c, fault, f, d) ==
    IF "movies" \notin c.templates THEN NoRename("TemplateMissing", f, d)
    ELSE IF fault = "render" THEN NoRename("RenderFailed", f, d)
    ELSE WithDest(Rename(c.action, LocalOf(m, c), EpisodeDest(m), c.force,
                         fault, f, d), EpisodeDest(m))

\* Application.renameEpisode
renameEpisode(m, c, fault, f, d) ==
    IF "tvshows" \notin c.templates THEN NoRename("TemplateMissing", f, d)
    ELSE IF fault = "render" THEN NoRename("RenderFailed", f, d)
    ELSE WithDest(Rename(c.action, LocalOf(m, c), EpisodeDest(m), c.force,
                         fault, f, d), EpisodeDest(m))

\* The loop's record of one item: the item as listed, the receiver m as it
\* is now, the scrapers invoked so far and the last one's answer, the merge's
\* fused value, and what rendering and Rename did.
Work(m) ==
    [item |-> m, m |-> m, k |-> 1, calls |-> <<>>,
     resp |-> [err |-> "none", media |-> NoMedia], scraped |-> NoMedia,
     fused |-> NoMedia, rendered |-> NoMedia, dest |-> "none", trace |-> <<>>,
     err |-> "nil", log |-> "none", touched |-> FALSE]

NoWork == Work(NoMedia)

---------------------------------------------------------------------------
(* SpecRename: Rename called again and again on arbitrary arguments       *)

NoCall ==
    [action |-> "none", local |-> [file |-> "lib/a", pather |-> FALSE],
     dest |-> "lib/a", force |-> FALSE, fault |-> "none", err |-> "nil",
     trace |-> <<>>, fsBefore |-> [p \in Paths |-> NoFile],
     dirsBefore |-> DirsOf([p \in Paths |-> NoFile])]

\* What the batch and the subtitle constructor own stays put in SpecRename.
IdleBatch ==
    /\ list = <<>>
    /\ cfg = [action |-> "none"]
    /\ idx = 0
    /\ pc = "idle"
    /\ ret = "nil"
    /\ cur = NoWork

IdleSub == sub = [name |-> <<>>, err |-> "none", lang |-> "none"]

IdleScan == scan = [files |-> <<>>, root |-> FALSE, at |-> 0, media |-> <<>>,
                    err |-> "none"]

IdleTxt == txt = [in |-> <<>>, prev |-> <<>>, out |-> <<>>, n |-> 0]

\* Regular files only; a directory exists when it holds a file, and the
\* library's own directory always does.
InitFS ==
    /\ fs \in [Paths -> {NoFile} \cup {File(c) : c \in Contents}]
    /\ dirs = DirsOf(fs)

InitRename ==
    /\ InitFS
    /\ last = NoCall
    /\ IdleBatch
    /\ IdleSub
    /\ IdleScan
    /\ IdleTxt

\* One call of Rename, start to return.
DoRename ==
    /\ last = NoCall
    /\ \E action \in Strategies, local \in Locals, dest \in Paths,
          force \in BOOLEAN, fault \in Faults :
          LET r == Rename(action, local, dest, force, fault, fs, dirs) IN
          /\ fault = "perm" => NothingBehindMode0(fs, dirs)
          /\ fs' = r.fs
          /\ dirs' = r.dirs
          /\ last' = [action |-> action, local |-> local, dest |-> dest,
                      force |-> force, fault |-> fault, err |-> r.err,
                      trace |-> r.trace, fsBefore |-> fs, dirsBefore |-> dirs]
    /\ UNCHANGED <<list, cfg, idx, pc, ret, cur, sub, scan, txt>>

\* The caller has taken the result; the filesystem stays as the call left it.
Returned ==
    /\ last # NoCall
    /\ last' = NoCall
    /\ UNCHANGED <<fs, dirs, list, cfg, idx, pc, ret, cur, sub, scan, txt>>

NextRename == DoRename \/ Returned

SpecRename == InitRename /\ [][NextRename]_vars

\* Membership of an element in a sequence.
InSeq(x, s) == \E i \in 1..Len(s) : s[i] = x

\* Index of the first occurrence of x in s, 0 when absent.
FirstIdx(x, s) ==
    IF InSeq(x, s) THEN CHOOSE i \in 1..Len(s) :
                            s[i] = x /\ \A j \in 1..(i-1) : s[j] # x
    ELSE 0

Called == last.action # "none"

DestExisted == Called /\ StatOK(last.fsBefore, last.dest)

\* C1: for every strategy, a Rename onto an existing destination with force
\* off returns MediaExistsError, leaves every file and directory as it was
\* and never invokes the strategy.
C1_ExistsNoForceNoMutation ==
    (DestExisted /\ ~last.force) =>
        /\ last.err = "MediaExists"
        /\ fs = last.fsBefore
        /\ dirs = last.dirsBefore
        /\ ~InSeq("call", last.trace)
        /\ ~InSeq("remove", last.trace)

C1_Witness ==
    /\ DestExisted /\ ~last.force
    /\ last.action = "move" /\ last.local.pather
    /\ StatOK(last.fsBefore, last.local.file)
    /\ last.local.file # last.dest
    /\ last.err = "MediaExists"

\* C2: a Rename with force on that returns an error does not leave the
\* existing destination missing: the file that was there is still there
\* with its old content.
C2_FailedForceKeepsDestination ==
    (DestExisted /\ last.force /\ last.err # "nil") =>
        /\ StatOK(fs, last.dest)
        /\ ReadFile(fs, last.dest) = ReadFile(last.fsBefore, last.dest)

\* The source can still be opened once the destination is unlinked: it is
\* neither the destination itself nor a link that leads to it.
SourceSurvives ==
    StatOK(Remove(last.fsBefore, last.dest), last.local.file)

\* C6: for every strategy, a successful Rename with force on onto an
\* existing destination leaves the source's content, and nothing of the old
\* file, at the destination, and the removal of the old file precedes the
\* strategy's call.  The source is a file that exists when Rename is called.
C6_ForceReplacesExistingSource ==
    (DestExisted /\ last.force /\ last.err = "nil"
       /\ StatOK(last.fsBefore, last.local.file)) =>
        /\ ReadFile(fs, last.dest) = ReadFile(last.fsBefore, last.local.file)
        /\ InSeq("remove", last.trace)
        /\ FirstIdx("remove", last.trace) < FirstIdx("call", last.trace)

\* The same where the source is neither the destination nor a link to it.
C6_ForceReplacesDistinctSource ==
    (DestExisted /\ last.force /\ last.err = "nil" /\ SourceSurvives) =>
        /\ ReadFile(fs, last.dest) = ReadFile(last.fsBefore, last.local.file)
        /\ InSeq("remove", last.trace)
        /\ FirstIdx("remove", last.trace) < FirstIdx("call", last.trace)

---------------------------------------------------------------------------
(* SpecBatch: one run of RenameMedia over a scanned list *)

Actions == Strategies \cup {"bogus"}

Configs ==
    [action : Actions, strict : BOOLEAN, force : BOOLEAN,
     templates : {{"movies", "tvshows"}, {"movies"}, {"tvshows"}},
     pather : BOOLEAN, nscrapers : {0, NumScrapers}]

\* The order in which a walk of the library meets the paths.
WalkOrder == <<"lib/a", "out/x", "out/y">>

Rank(p) == CHOOSE i \in 1..Len(WalkOrder) : WalkOrder[i] = p

\* Lists of at most n items.
RECURSIVE ListsUpTo(_)
ListsUpTo(n) ==
    IF n = 0 THEN {<<>>}
    ELSE LET shorter == ListsUpTo(n - 1) IN
         shorter \cup
         {Append(l, m) : l \in {k \in shorter : Len(k) = n - 1},
                         m \in Items}

\* A scan yields each file once, in walk order: the i-th item of the list is
\* the i-th file the walk met.
Scanned(l) == \A i \in 1..Len(l) : Rank(l[i].file) = i

\* Every listed file is on disk with the media's bytes (1); any other path
\* is free or holds an older file (2).
InitBatchFS ==
    /\ fs \in [Paths -> {NoFile, File(1), File(2)}]
    /\ \A p \in Paths :
          IF \E i \in 1..Len(list) : list[i].file = p
          THEN fs[p] = File(1) ELSE fs[p] # File(1)
    /\ dirs = DirsOf(fs)

InitBatch ==
    /\ list \in {l \in ListsUpTo(MaxItems) : Scanned(l)}
    /\ cfg \in Configs
    /\ InitBatchFS
    /\ idx = 0
    /\ pc = "start"
    /\ ret = "nil"
    /\ cur = NoWork
    /\ last = NoCall
    /\ IdleSub
    /\ IdleScan
    /\ IdleTxt

\* RenameMedia returns err from inside the loop.
Return(err) ==
    /\ pc' = "done"
    /\ ret' = err

\* RenameMedia enters the loop whatever the configured action is.
BeginWithoutLookup ==
    /\ pc = "start"
    /\ pc' = "next"
    /\ ret' = ret
    /\ UNCHANGED <<fs, dirs, last, list, cfg, idx, cur, sub, scan, txt>>

\* RenameMedia up to the loop: the lookup of the configured action.
Begin ==
    /\ pc = "start"
    /\ IF cfg.action \in Strategies
       THEN pc' = "next" /\ ret' = ret
       ELSE Return("UnknownAction")
    /\ UNCHANGED <<fs, dirs, last, list, cfg, idx, cur, sub, scan, txt>>

\* The loop head takes the next item of the list.
Advance ==
    /\ pc = "next"
    /\ idx < Len(list)
    /\ idx' = idx + 1
    /\ cur' = Work(list[idx + 1])
    /\ pc' = "scrape"
    /\ UNCHANGED <<fs, dirs, last, list, cfg, ret, sub, scan, txt>>

\* The loop ran off the end of the list.
Finish ==
    /\ pc = "next"
    /\ idx = Len(list)
    /\ pc' = "done"
    /\ ret' = "nil"
    /\ UNCHANGED <<fs, dirs, last, list, cfg, idx, cur, sub, scan, txt>>

\* scrapeMedia asks the next scraper although one has already succeeded,
\* and keeps the later answer.
ScrapeAskAll ==
    /\ pc = "scrape"
    /\ cur.k <= cfg.nscrapers
    /\ \E resp \in Responses :
          LET c1 == [cur EXCEPT !.calls = Append(@, cur.k), !.resp = resp,
                                !.k = @ + 1] IN
          IF resp.err = "nil"
          THEN /\ cur' = [c1 EXCEPT !.scraped = resp.media]
               /\ IF cur.k = cfg.nscrapers THEN pc' = "merge" ELSE pc' = pc
               /\ ret' = ret
          ELSE IF cur.scraped # NoMedia /\ cur.k = cfg.nscrapers
          THEN cur' = c1 /\ pc' = "merge" /\ ret' = ret
          ELSE cur' = c1 /\ pc' = pc /\ ret' = ret
    /\ UNCHANGED <<fs, dirs, last, list, cfg, idx, sub, scan, txt>>

\* scrapeMedia treats every error of a scraper as "try the next one".
ScrapeSkipAnyError ==
    /\ pc = "scrape"
    /\ cur.k <= cfg.nscrapers
    /\ \E resp \in Responses :
          LET c1 == [cur EXCEPT !.calls = Append(@, cur.k), !.resp = resp,
                                !.k = @ + 1] IN
          IF resp.err # "nil"
          THEN cur' = c1 /\ pc' = pc /\ ret' = ret
          ELSE /\ cur' = [c1 EXCEPT !.scraped = resp.media]
               /\ pc' = "merge"
               /\ ret' = ret
    /\ UNCHANGED <<fs, dirs, last, list, cfg, idx, sub, scan, txt>>

\* One turn of the loop of scrapeMedia: scraper number cur.k is asked.
Scrape ==
    /\ pc = "scrape"
    /\ cur.k <= cfg.nscrapers
    /\ \E resp \in Responses :
          LET c1 == [cur EXCEPT !.calls = Append(@, cur.k), !.resp = resp,
                                !.k = @ + 1] IN
          IF resp.err # "nil"
          THEN IF resp.err = "NotSupported"
               THEN cur' = c1 /\ pc' = pc /\ ret' = ret
               ELSE /\ cur' = [c1 EXCEPT !.err = resp.err]
                    /\ Return(resp.err)
          ELSE /\ cur' = [c1 EXCEPT !.scraped = resp.media]
               /\ pc' = "merge"
               /\ ret' = ret
    /\ UNCHANGED <<fs, dirs, last, list, cfg, idx, sub, scan, txt>>

\* scrapeMedia ran out of scrapers; RenameMedia returns its error.
NoScraper ==
    /\ pc = "scrape"
    /\ cur.k > cfg.nscrapers
    /\ cur' = [cur EXCEPT !.err = "NoScraper"]
    /\ Return("NoScraper")
    /\ UNCHANGED <<fs, dirs, last, list, cfg, idx, sub, scan, txt>>

\* The loop goes on to the narrowing although Merge returned an error.
MergeStepIgnoresError ==
    /\ pc = "merge"
    /\ \E inPlace \in BOOLEAN :
          LET mg == Merge(cur.m, cur.scraped, inPlace) IN
          /\ cur' = [cur EXCEPT !.m = mg.m, !.fused = mg.fused]
          /\ pc' = "rename"
          /\ ret' = ret
    /\ UNCHANGED <<fs, dirs, last, list, cfg, idx, sub, scan, txt>>

\* m.Merge(scraped) and the check of its error.
MergeStep ==
    /\ pc = "merge"
    /\ \E inPlace \in BOOLEAN :
          LET mg == Merge(cur.m, cur.scraped, inPlace) IN
          IF mg.err # "nil"
          THEN /\ cur' = [cur EXCEPT !.err = mg.err]
               /\ Return(mg.err)
          ELSE /\ cur' = [cur EXCEPT !.m = mg.m, !.fused = mg.fused]
               /\ pc' = "rename"
               /\ ret' = ret
    /\ UNCHANGED <<fs, dirs, last, list, cfg, idx, sub, scan, txt>>

\* The narrowing of the merged m and the rename of the variant found.
NarrowAndRename(m, c, fault, f, d) ==
    IF TypeMovie(m) THEN renameMovie(m, c, fault, f, d)
    ELSE IF TypeEpisode(m) THEN renameEpisode(m, c, fault, f, d)
    ELSE NoRename("UnknownFormat", f, d)

\* Strict mode lets every error pass.
AbortsNever(c, err) == FALSE

\* Whether the loop returns the item's error: a.Config().Strict() && err != nil
Aborts(c, err) == c.strict /\ err # "nil"

\* The line the loop logs for an item it does not return on.
LogLine(err) ==
    IF err = "nil" THEN "renamed"
    ELSE IF err = "MediaExists" THEN "skipped" ELSE "failed"

\* The rest of the loop body: narrow, render and rename, then the strict
\* check and the log line.
RenameStep ==
    /\ pc = "rename"
    /\ \E fault \in BatchFaults :
          LET r == NarrowAndRename(cur.m, cfg, fault, fs, dirs) IN
          /\ fault = "perm" => NothingBehindMode0(fs, dirs)
          /\ fs' = r.fs
          /\ dirs' = r.dirs
          /\ IF Aborts(cfg, r.err)
             THEN /\ Return(r.err)
                  /\ cur' = [cur EXCEPT !.err = r.err, !.dest = r.dest,
                                !.trace = r.trace,
                                !.rendered = IF TypeMovie(cur.m) \/ TypeEpisode(cur.m)
                                             THEN cur.m ELSE NoMedia,
                                !.touched = (r.fs # fs \/ r.dirs # dirs)]
             ELSE /\ pc' = "next"
                  /\ ret' = ret
                  /\ cur' = [cur EXCEPT !.err = r.err, !.dest = r.dest,
                                !.trace = r.trace, !.log = LogLine(r.err),
                                !.rendered = IF TypeMovie(cur.m) \/ TypeEpisode(cur.m)
                                             THEN cur.m ELSE NoMedia,
                                !.touched = (r.fs # fs \/ r.dirs # dirs)]
    /\ UNCHANGED <<last, list, cfg, idx, sub, scan, txt>>

NextBatch ==
    \/ Begin
    \/ Advance
    \/ Scrape
    \/ NoScraper
    \/ MergeStep
    \/ RenameStep
    \/ Finish

SpecBatch == InitBatch /\ [][NextBatch]_vars

---------------------------------------------------------------------------
(* Claims about the batch *)

\* C3: an item whose rename returns MediaExistsError is a skip in strict
\* and in lenient mode alike: RenameMedia does not return that error and
\* goes on through the rest of the list.
C3_MediaExistsIsAlwaysASkip ==
    (pc = "done" /\ cur.err = "MediaExists") =>
        (ret = "nil" /\ idx = Len(list))

\* C4: with strict off, no per-item error ends the batch early: when
\* RenameMedia has returned, the loop has entered every item of the list.
C4_LenientAttemptsEveryItem ==
    (pc = "done" /\ ~cfg.strict /\ cfg.action \in Strategies) =>
        idx = Len(list)

Unrecoverable ==
    {"ScrapeFailed", "NoScraper", "TypeMismatch", "MergeUnsupported",
     "UnknownFormat", "TemplateMissing"}

\* C5: with strict on, the first unrecoverable error of an item ends the
\* batch at once: RenameMedia has returned exactly that error, the failing
\* item is the last one the loop entered, and nothing is enabled afterwards
\* that could scrape, merge or rename a later item.
C5_StrictAbortsAtFirstError ==
    (cfg.strict /\ cur.err \in Unrecoverable) =>
        /\ pc = "done"
        /\ ret = cur.err
        /\ cur.item = list[idx]
        /\ ~ENABLED Advance
        /\ ~ENABLED Scrape
        /\ ~ENABLED MergeStep
        /\ ~ENABLED RenameStep

C5_Witness ==
    /\ cfg.strict /\ pc = "done" /\ ret = "TemplateMissing"
    /\ idx = 1 /\ Len(list) = 2
    /\ ~cur.touched

\* The scrapers invoked for the item, in the order they were invoked, are
\* the first ones of the configured order.
InConfiguredOrder == cur.calls = [i \in 1..Len(cur.calls) |-> i]

\* C7: the aggregator asks the scrapers in their configured order, goes on
\* past one that signals MediaNotSupportedError, and stops at the first
\* result without an error: that scraper's media is what it returns and no
\* scraper after it has been invoked.
C7_FirstSuccessWins ==
    /\ InConfiguredOrder
    /\ cur.scraped # NoMedia =>
          /\ pc # "scrape"
          /\ cur.resp = [err |-> "nil", media |-> cur.scraped]
          /\ cur.k = Len(cur.calls) + 1
          /\ ~ENABLED Scrape
    /\ cur.resp.err = "NotSupported" =>
          /\ ret # "NotSupported"
          /\ pc = "scrape" \/ (pc = "done" /\ ret = "NoScraper")

C7_Witness ==
    /\ pc = "merge"
    /\ cur.calls = <<1, 2>>
    /\ cfg.nscrapers > 2
    /\ cur.scraped # NoMedia

\* C8: an error of a scraper other than MediaNotSupportedError ends the
\* aggregation: it is what the caller gets, there is no media, and no later
\* scraper is invoked.  When every scraper signalled MediaNotSupportedError,
\* or there is none, the aggregation fails with NoScraperError and no media.
C8_ErrorAbortsExhaustionFails ==
    /\ cur.resp.err = "ScrapeFailed" =>
          /\ pc = "done" /\ ret = "ScrapeFailed"
          /\ cur.scraped = NoMedia
          /\ ~ENABLED Scrape
    /\ (cur.item # NoMedia /\ pc # "scrape" /\ Len(cur.calls) = cfg.nscrapers
          /\ cur.resp.err \in {"NotSupported", "none"}) =>
          /\ pc = "done" /\ ret = "NoScraper"
          /\ cur.scraped = NoMedia
    /\ ret = "NoScraper" =>
          /\ Len(cur.calls) = cfg.nscrapers
          /\ cur.resp.err \in {"NotSupported", "none"}

C8_Witness ==
    /\ ret = "ScrapeFailed"
    /\ cur.calls = <<1>>
    /\ cfg.nscrapers > 1

\* C9: the merge leaves the local item as it was and yields a new fused
\* value, and the fused value is the one that is narrowed and rendered.
C9_MergeIsPureAndFusedIsRendered ==
    cur.fused # NoMedia =>
        /\ cur.m = cur.item
        /\ cur.rendered # NoMedia => cur.rendered = cur.fused

---------------------------------------------------------------------------
(* SpecSubtitle: NewLocalSubtitle on a file name *)

\* A file name is a sequence of tokens: the dot, and pieces of text that
\* hold no dot.  "en" is a well-formed language tag, "zz9" is not.
Tokens == {".", "srt", "mkv", "en", "zz9"}

RECURSIVE NamesUpTo(_)
NamesUpTo(n) ==
    IF n = 0 THEN {<<>>}
    ELSE LET shorter == NamesUpTo(n - 1) IN
         shorter \cup {Append(s, t) : s \in {u \in shorter : Len(u) = n - 1},
                                      t \in Tokens}

Names == NamesUpTo(MaxNameLen) \ {<<>>}

\* Position of the last dot of the name, 0 when it has none.
LastDot(name) ==
    IF \E i \in 1..Len(name) : name[i] = "."
    THEN CHOOSE i \in 1..Len(name) :
             name[i] = "." /\ \A j \in (i + 1)..Len(name) : name[j] # "."
    ELSE 0

\* filepath.Ext: the suffix from the last dot on, empty without a dot.
Ext(name) ==
    IF LastDot(name) = 0 THEN <<>>
    ELSE SubSeq(name, LastDot(name), Len(name))

\* strings.Split(name, "."): the pieces between the dots, empty ones kept.
RECURSIVE Split(_)
Split(name) ==
    IF LastDot(name) = 0 THEN <<name>>
    ELSE Append(Split(SubSeq(name, 1, LastDot(name) - 1)),
                SubSeq(name, LastDot(name) + 1, Len(name)))

\* language.Parse tells a well-formed tag from anything else.
WellFormedTag(text) == text = <<"en">>

\* language.Make: Parse with the error dropped; the undetermined tag "und"
\* stands for what does not parse.
LanguageMake(text) == IF WellFormedTag(text) THEN "en" ELSE "und"

\* NewLocalSubtitle(file), on file.Name(); parts[len(parts)-2] counts from 0,
\* a sequence here counts from 1.
NewLocalSubtitle(name) ==
    IF Ext(name) # <<".", "srt">>
    THEN [name |-> name, err |-> "NotSubtitle", lang |-> "none"]
    ELSE LET parts == Split(name) IN
         IF Len(parts) < 2
         THEN [name |-> name, err |-> "ParseError", lang |-> "none"]
         ELSE [name |-> name, err |-> "nil",
               lang |-> LanguageMake(parts[Len(parts) - 1])]

InitSubtitle ==
    /\ fs = [p \in Paths |-> NoFile]
    /\ dirs = DirsOf(fs)
    /\ last = NoCall
    /\ IdleBatch
    /\ IdleSub
    /\ IdleScan
    /\ IdleTxt

\* One call of the constructor.
Construct ==
    /\ \E name \in Names : sub' = NewLocalSubtitle(name)
    /\ UNCHANGED <<fs, dirs, last, list, cfg, idx, pc, ret, cur, scan, txt>>

NextSubtitle == Construct

SpecSubtitle == InitSubtitle /\ [][NextSubtitle]_vars

\* The locale token of the name: its second-to-last piece, when the name has
\* a piece before it and the extension after it.
HasLocaleToken(name) == Len(Split(name)) >= 3

LocaleToken(name) == Split(name)[Len(Split(name)) - 1]

\* C10: a name whose locale token is missing or is no well-formed language
\* tag yields an error and no Subtitle, and so does a name without the
\* subtitle extension; a Subtitle that is built carries the tag of the
\* second-to-last piece.
C10_BadLocaleFails ==
    sub.err # "none" =>
        /\ Ext(sub.name) # <<".", "srt">> => sub.err # "nil"
        /\ (~HasLocaleToken(sub.name) \/ ~WellFormedTag(LocaleToken(sub.name)))
              => (sub.err # "nil" /\ sub.lang = "none")
        /\ sub.err = "nil" => sub.lang = LanguageMake(LocaleToken(sub.name))

\* ---------------------------------------------------------------------
\* Application.FindMedia: the library scan (SpecScan)
\* ---------------------------------------------------------------------

MaxEntries == 3

\* The extensions FindMedia takes for video files.
filetypes == {".avi", ".mkv", ".mp4", ".m4v", ".flv", ".mov", ".wmv",
              ".webm", ".mpg", ".mpeg"}

\* Extensions of the entries under the root: two video ones and one that is
\* not in filetypes.
ScanExts == {".mkv", ".mp4", ".srt"}

\* An entry filepath.Walk visits: a directory or a file, its extension, and
\* whether a media value can be constructed from it.
Entries == [dir : BOOLEAN, ext : ScanExts, parses : BOOLEAN]

\* What lies under the root, in the lexical order filepath.Walk visits it.
Libraries == UNION {[1..n -> Entries] : n \in 0..MaxEntries}

\* media.New(f) for the i-th entry: the media value (named by the entry's
\* position) or an error.
New(f, i) ==
    IF f.parses THEN [err |-> "nil", media |-> i]
    ELSE [err |-> "ParseError", media |-> 0]

\* The callback handed to filepath.Walk, on the i-th entry, with the slice
\* collected so far.
WalkFunc(f, i, media) ==
    IF f.dir THEN [err |-> "nil", media |-> media]
    ELSE IF f.ext \in filetypes
    THEN LET m == New(f, i) IN
         IF m.err # "nil"
         THEN [err |-> "CouldNotParse", media |-> media]
         ELSE [err |-> "nil", media |-> Append(media, m.media)]
    ELSE [err |-> "nil", media |-> media]

InitScan ==
    /\ fs = [p \in Paths |-> NoFile]
    /\ dirs = DirsOf(fs)
    /\ last = NoCall
    /\ IdleBatch
    /\ IdleSub
    /\ IdleTxt
    /\ scan \in [files : Libraries, root : BOOLEAN, at : {0}, media : {<<>>},
                 err : {"none"}]

\* os.Stat(root): a missing root returns (nil, err) at once.
StatRoot ==
    /\ scan.at = 0
    /\ scan.err = "none"
    /\ scan' = IF scan.root THEN [scan EXCEPT !.at = 1]
               ELSE [scan EXCEPT !.err = "NotExist"]
    /\ UNCHANGED <<fs, dirs, last, list, cfg, idx, pc, ret, cur, sub, txt>>

\* filepath.Walk calls the callback on the next entry; an error from the
\* callback ends the walk, and FindMedia returns (nil, err).
Visit ==
    /\ scan.err = "none"
    /\ scan.at \in 1..Len(scan.files)
    /\ LET r == WalkFunc(scan.files[scan.at], scan.at, scan.media) IN
       scan' = IF r.err # "nil"
               THEN [scan EXCEPT !.err = r.err, !.media = <<>>]
               ELSE [scan EXCEPT !.at = scan.at + 1, !.media = r.media]
    /\ UNCHANGED <<fs, dirs, last, list, cfg, idx, pc, ret, cur, sub, txt>>

\* The walk is over: FindMedia returns (media, nil).
WalkReturn ==
    /\ scan.err = "none"
    /\ scan.at = Len(scan.files) + 1
    /\ scan' = [scan EXCEPT !.err = "nil"]
    /\ UNCHANGED <<fs, dirs, last, list, cfg, idx, pc, ret, cur, sub, txt>>

NextScan == StatRoot \/ Visit \/ WalkReturn

SpecScan == InitScan /\ [][NextScan]_vars

\* The positions of the files with a video extension from which a media
\* value can be constructed, in walk order.
Discovered(files) ==
    SelectSeq([i \in 1..Len(files) |-> i],
              LAMBDA i : /\ ~files[i].dir
                         /\ files[i].ext \in filetypes
                         /\ files[i].parses)

\* C11: a scan of an existing root returns without an error, and returns
\* the media of every video file that can be constructed, in walk order;
\* a file whose construction fails is left out and nothing else is.
C11_UnparseableFileIsSkipped ==
    (scan.root /\ scan.err # "none") =>
        /\ scan.err = "nil"
        /\ scan.media = Discovered(scan.files)

\* ---------------------------------------------------------------------
\* Further properties of Rename and the strategies (SpecRename)
\* ---------------------------------------------------------------------

\* The strategy was invoked and no call into the operating system failed
\* for a reason outside the program.
StrategyRanUndisturbed ==
    /\ Called
    /\ InSeq("call", last.trace)
    /\ last.fault \in {"none", "perm"}

\* C12: move, symlink and hardlink on a media without a path fail with the
\* path-unavailable error and put no file at the destination; copy needs no
\* path and succeeds whenever the media's byte stream could be opened.
C12_PathlessFailsCopyNeedsNoPath ==
    StrategyRanUndisturbed =>
        /\ (last.action # "copy" /\ ~last.local.pather) =>
              /\ last.err = "NoPath"
              /\ \/ ~LExists(fs, last.dest)
                 \/ fs[last.dest] = last.fsBefore[last.dest]
        /\ (last.action = "copy" /\ InSeq("acquire:src", last.trace)) =>
              last.err = "nil"

\* The call returned without an error and its source could be read before.
Succeeded ==
    /\ Called
    /\ last.err = "nil"
    /\ StatOK(last.fsBefore, last.local.file)

\* C13: after a successful Rename the destination reads as the source did;
\* copy, symlink and hardlink leave the source readable with the same
\* content at its path, move leaves no entry at the source's path.
C13_SourceKeptOrMoved ==
    Succeeded =>
        /\ ReadFile(fs, last.dest) = ReadFile(last.fsBefore, last.local.file)
        /\ last.action \in {"copy", "symlink", "hardlink"} =>
              ReadFile(fs, last.local.file)
                 = ReadFile(last.fsBefore, last.local.file)
        /\ last.action = "move" => ~LExists(fs, last.local.file)

\* Supporting lemma for C13: the same holds of every successful call whose
\* source and destination are different paths that lead to different files.
C13_HoldsWithoutAliasing ==
    (/\ last.local.file # last.dest
     /\ Follow(last.fsBefore, last.local.file)
           # Follow(last.fsBefore, last.dest))
        => C13_SourceKeptOrMoved

\* ---------------------------------------------------------------------
\* Further properties of the batch (SpecBatch)
\* ---------------------------------------------------------------------

\* C14: a subtitle takes part in no merge: its Merge returns an error and
\* leaves the subtitle as it was, RenameMedia returns that error, and the
\* subtitle is never narrowed to a movie or an episode, never rendered and
\* never handed to a link strategy.
C14_SubtitleNeverMerges ==
    cur.item.kind = "subtitle" =>
        /\ cur.m = cur.item
        /\ cur.fused = NoMedia
        /\ ~TypeMovie(cur.m) /\ ~TypeEpisode(cur.m)
        /\ pc # "rename"
        /\ cur.rendered = NoMedia
        /\ cur.trace = <<>>
        /\ ~cur.touched
        /\ (cur.scraped # NoMedia /\ pc # "merge") =>
              /\ cur.err = "MergeUnsupported"
              /\ pc = "done"
              /\ ret = "MergeUnsupported"

C14_Witness ==
    /\ cur.item.kind = "subtitle"
    /\ cur.scraped # NoMedia
    /\ cur.err = "MergeUnsupported"
    /\ pc = "done"
    /\ idx = 2

\* The template a narrowed media is rendered with.
TemplateOf(m) == IF TypeMovie(m) THEN "movies" ELSE "tvshows"

\* C15: rendering takes the template of the media's variant; when none is
\* configured for that variant the item fails with the missing-template
\* error, Rename is not called and no file or directory changes for the
\* item; a configured template never yields that error.
C15_MissingTemplateNoRename ==
    cur.rendered # NoMedia =>
        IF TemplateOf(cur.rendered) \notin cfg.templates
        THEN /\ cur.err = "TemplateMissing"
             /\ cur.trace = <<>>
             /\ cur.dest = "none"
             /\ ~cur.touched
        ELSE cur.err # "TemplateMissing"

C15_Witness ==
    /\ cur.rendered # NoMedia
    /\ TypeEpisode(cur.rendered)
    /\ cfg.templates = {"movies"}
    /\ cur.err = "TemplateMissing"
    /\ fs[MovieDest(cur.rendered)] = NoFile

\* ---------------------------------------------------------------------
\* truncateSpaces on the rendered file name (SpecTruncate)
\* ---------------------------------------------------------------------

MaxStrLen == 4

\* Space, tab, newline and a character that is no whitespace.
Alphabet == {" ", "\t", "\n", "a"}

Strings == UNION {[1..n -> Alphabet] : n \in 0..MaxStrLen}

\* The class \s of the regular expression, as far as the alphabet goes.
IsSpace(c) == c \in {" ", "\t", "\n"}

\* The end of the match of \s\s+ that starts at i: the expression is greedy,
\* so the match runs to the last whitespace character of the run.
RunEnd(str, i) ==
    CHOOSE j \in i..Len(str) :
        /\ \A k \in i..j : IsSpace(str[k])
        /\ j = Len(str) \/ ~IsSpace(str[j + 1])

\* spaceRegex matches at i: two whitespace characters or more start there.
spaceRegex(str, i) ==
    /\ i < Len(str)
    /\ IsSpace(str[i])
    /\ IsSpace(str[i + 1])

\* spaceRegex.ReplaceAllString(str, " ") from position i on: matches are
\* taken from left to right and do not overlap.
RECURSIVE ReplaceAllString(_, _)
ReplaceAllString(str, i) ==
    IF i > Len(str) THEN <<>>
    ELSE IF spaceRegex(str, i)
    THEN <<" ">> \o ReplaceAllString(str, RunEnd(str, i) + 1)
    ELSE <<str[i]>> \o ReplaceAllString(str, i + 1)

\* The expression without its +: every two whitespace characters become one
\* space.
RECURSIVE ReplacePairs(_, _)
ReplacePairs(str, i) ==
    IF i > Len(str) THEN <<>>
    ELSE IF spaceRegex(str, i)
    THEN <<" ">> \o ReplacePairs(str, i + 2)
    ELSE <<str[i]>> \o ReplacePairs(str, i + 1)

truncateSpacesPairwise(str) == ReplacePairs(str, 1)

truncateSpaces(str) == ReplaceAllString(str, 1)

InitTruncate ==
    /\ fs = [p \in Paths |-> NoFile]
    /\ dirs = DirsOf(fs)
    /\ last = NoCall
    /\ IdleBatch
    /\ IdleSub
    /\ IdleScan
    /\ \E str \in Strings :
          txt = [in |-> str, prev |-> str, out |-> str, n |-> 0]

\* truncateSpaces is applied to the string at hand: to the input first, to
\* its own result after that.
Truncate ==
    /\ txt.n < 2
    /\ txt' = [txt EXCEPT !.prev = txt.out, !.out = truncateSpaces(txt.out),
                          !.n = txt.n + 1]
    /\ UNCHANGED <<fs, dirs, last, list, cfg, idx, pc, ret, cur, sub, scan>>

NextTruncate == Truncate

SpecTruncate == InitTruncate /\ [][NextTruncate]_vars

\* C16: truncateSpaces is idempotent: applied to its own result it returns
\* that result.
C16_TruncateIdempotent ==
    txt.n = 2 => txt.out = txt.prev

C16_Witness ==
    /\ txt.n = 2
    /\ Len(txt.in) >= 4
    /\ txt.in[1] = "\t" /\ txt.in[2] = "\n" /\ txt.in[3] = " "
    /\ txt.in[4] = "a"
    /\ txt.out = <<" ", "a">>

\* The order in which RenameMedia passes from one place to the next.
StageOrder ==
    {<<"start", "next">>, <<"start", "done">>, <<"next", "scrape">>,
     <<"next", "done">>, <<"scrape", "merge">>, <<"scrape", "done">>,
     <<"merge", "rename">>, <<"merge", "done">>, <<"rename", "next">>,
     <<"rename", "done">>}

\* An item is under way: it is the idx-th of the list and nothing has been
\* rendered, renamed or logged for it; the merge has the scraped media and
\* the rename the merged one.
StagesOfOneItem ==
    /\ pc \in {"scrape", "merge", "rename"} =>
          /\ idx \in 1..Len(list)
          /\ cur.item = list[idx]
          /\ cur.rendered = NoMedia
          /\ cur.trace = <<>>
          /\ ~cur.touched
          /\ cur.log = "none"
    /\ pc = "scrape" => cur.scraped = NoMedia /\ cur.fused = NoMedia
    /\ pc = "merge" => cur.scraped # NoMedia /\ cur.fused = NoMedia
    /\ pc = "rename" => cur.scraped # NoMedia /\ cur.fused # NoMedia
    /\ (cur.touched \/ cur.trace # <<>> \/ cur.rendered # NoMedia) =>
          cur.scraped # NoMedia /\ cur.fused # NoMedia

\* A step keeps the stage order; only the rename stage of the item at hand
\* changes a file or a directory; the next item is taken only from the loop
\* head, after the rename of the one before has returned and been logged.
StagesStep ==
    /\ pc' # pc => <<pc, pc'>> \in StageOrder
    /\ (fs' # fs \/ dirs' # dirs) =>
          /\ pc = "rename"
          /\ cur.scraped # NoMedia /\ cur.fused # NoMedia
          /\ idx' = idx /\ cur'.item = cur.item
    /\ idx' # idx =>
          /\ pc = "next" /\ pc' = "scrape"
          /\ idx' = idx + 1
          /\ cur'.item = list[idx']
          /\ idx >= 1 => cur.log # "none"
          /\ fs' = fs /\ dirs' = dirs

\* C17: the items are worked one at a time in list order, each through
\* scrape, merge, narrow, render and rename in this order; no file or
\* directory changes for an item whose scrape or merge did not succeed, and
\* no stage of the next item starts before the rename of the one before has
\* returned.
C17_StagesInOrder == [](StagesOfOneItem) /\ [][StagesStep]_vars

C17_Witness ==
    /\ idx = 2
    /\ pc = "next"
    /\ cur.item = list[2]
    /\ cur.touched
    /\ cur.log = "renamed"
    /\ ReadFile(fs, cur.dest) = 1

\* How often x occurs in s.
Count(x, s) == Cardinality({i \in 1..Len(s) : s[i] = x})

\* In the trace of a call the handle acquired by acq is closed by rel once,
\* after it was acquired; a handle never acquired is never closed.
Released(acq, rel, t) ==
    /\ Count(acq, t) <= 1
    /\ Count(rel, t) = Count(acq, t)
    /\ InSeq(acq, t) => FirstIdx(acq, t) < FirstIdx(rel, t)

\* C18: when the copy strategy returns, with nil or with the error of the
\* directory creation, the open, the create or the byte copy, the source
\* and destination handles it opened have been closed.
C18_CopyReleasesHandles ==
    (Called /\ last.action = "copy") =>
        /\ Released("acquire:src", "close:src", last.trace)
        /\ Released("acquire:dst", "close:dst", last.trace)

C18_Witness ==
    /\ Called /\ last.action = "copy"
    /\ last.fault = "copy"
    /\ last.err = "CopyFailed"
    /\ InSeq("acquire:src", last.trace)
    /\ InSeq("acquire:dst", last.trace)
    /\ fs[last.dest] = File(0)

\* With force off a step leaves what can be read at the destination it
\* renders to as it is, removes nothing there, and reports the item as
\* existing.
KeepsDestination ==
    (~cfg.force /\ pc = "rename" /\ cur'.dest # "none"
       /\ StatOK(fs, cur'.dest)) =>
        /\ fs'[cur'.dest] = fs[cur'.dest]
        /\ ReadFile(fs', cur'.dest) = ReadFile(fs, cur'.dest)
        /\ cur'.err = "MediaExists"
        /\ ~InSeq("remove", cur'.trace)
        /\ ~InSeq("call", cur'.trace)
        /\ fs' = fs /\ dirs' = dirs

\* With force off the only existing file a step takes away or changes is
\* the source of the item it moves.
KeepsOtherFiles ==
    (~cfg.force /\ pc = "rename") =>
        \A p \in Paths :
            (StatOK(fs, p) /\ p # cur.m.file) =>
                /\ fs'[p] = fs[p]
                /\ ReadFile(fs', p) = ReadFile(fs, p)

C20_UnknownActionTouchesNothing ==
    cfg.action \notin Strategies =>
        /\ pc \in {"start", "done"}
        /\ pc = "done" => ret = "UnknownAction"
        /\ idx = 0
        /\ cur = NoWork
        /\ dirs = DirsOf(fs)
        /\ \A p \in Paths :
              fs[p] = File(1) <=> \E i \in 1..Len(list) : list[i].file = p

C20_Witness ==
    /\ cfg.action \notin Strategies
    /\ pc = "done"
    /\ ret = "UnknownAction"
    /\ Len(list) = 2
    /\ ~cfg.strict

====
